---- MODULE Spec2Model ----
(***************************************************************************)
(* Model of cdl.py, the course/week directory resolver.                    *)
(*                                                                         *)
(* A file name is a sequence of one-character strings, a path is a         *)
(* sequence of names relative to Config.MAGSHIMIM_DIR_PATH (the empty path *)
(* is that directory itself; its parent, the home directory, always        *)
(* exists).  An Optional value is a sequence of length 0 (None) or 1.      *)
(***************************************************************************)
EXTENDS Integers, Sequences, FiniteSets

VARIABLES fs, fs0, pc, argv, status, out, steps, course_path, week_path, prev, lookup, call

vars ==
    <<fs, fs0, pc, argv, status, out, steps, course_path, week_path, prev, lookup, call>>

None == <<>>
Some(x) == <<x>>

(***************************************************************************)
(* Bounds of the model.                                                    *)
(***************************************************************************)
\* longest suffix after the "course"/"week" prefix in a drawn listing name
MaxSuffixLen == 2
\* an invocation starts only while the tree has fewer entries than this
MaxEntries == 10

(***************************************************************************)
(* Strings.                                                                *)
(***************************************************************************)
Digits == {"0", "1", "2", "3", "4", "5", "6", "7", "8", "9"}

DigitVal(ch) ==
    CASE ch = "0" -> 0 [] ch = "1" -> 1 [] ch = "2" -> 2 [] ch = "3" -> 3
      [] ch = "4" -> 4 [] ch = "5" -> 5 [] ch = "6" -> 6 [] ch = "7" -> 7
      [] ch = "8" -> 8 [] ch = "9" -> 9

Range(s) == {s[i] : i \in 1..Len(s)}

\* str.startswith
startswith(s, p) == Len(s) >= Len(p) /\ SubSeq(s, 1, Len(p)) = p

\* str.lstrip(chars): drops leading characters that are members of chars
RECURSIVE lstrip(_, _)
lstrip(s, chars) ==
    IF s # <<>> /\ Head(s) \in chars THEN lstrip(Tail(s), chars) ELSE s

RECURSIVE DecimalValue(_)
DecimalValue(s) ==
    IF s = <<>> THEN 0
    ELSE 10 * DecimalValue(SubSeq(s, 1, Len(s) - 1)) + DigitVal(s[Len(s)])

\* int(s) on the characters of the model (decimal digits and letters):
\* a non-empty string of digits has a value, anything else is a ValueError
int(s) ==
    IF s # <<>> /\ Range(s) \subseteq Digits
    THEN [err |-> "ok", val |-> DecimalValue(s)]
    ELSE [err |-> "ValueError", val |-> 0]

COURSE == <<"c", "o", "u", "r", "s", "e">>
WEEK == <<"w", "e", "e", "k">>
CLASSWORK == <<"c", "l", "a", "s", "s", "w", "o", "r", "k">>
HOMEWORK == <<"h", "o", "m", "e", "w", "o", "r", "k">>
SRC == <<"s", "r", "c">>
ANSW == <<"a", "n", "s", "w">>
PROGRAMMING_CPP ==
    <<"p", "r", "o", "g", "r", "a", "m", "m", "i", "n", "g", "_", "c", "p", "p">>
ASSEMBLY == <<"a", "s", "s", "e", "m", "b", "l", "y">>

(***************************************************************************)
(* Config.                                                                 *)
(***************************************************************************)
Aliases == {"p", "a"}

COURSES(alias) == IF alias = "p" THEN PROGRAMMING_CPP ELSE ASSEMBLY

IS_WEEK_DIR(s) == startswith(s, WEEK)

IS_COURSE_DIR(s) == startswith(s, COURSE)

\* a slip: min in place of max
MinByIntKey(items, prefix) ==
    LET key(i) == int(lstrip(items[i], Range(prefix)))
        I == 1..Len(items)
    IN  IF \E i \in I : key(i).err # "ok"
        THEN [err |-> "ValueError", val |-> None]
        ELSE LET best == CHOOSE i \in I :
                     /\ \A j \in I : key(j).val >= key(i).val
                     /\ \A j \in I : j < i => key(j).val > key(i).val
             IN  [err |-> "ok", val |-> Some(items[best])]

\* max(items, key = lambda x: int(x.lstrip(prefix))): the key of every item
\* is computed (a ValueError of any propagates), and the first item with
\* the greatest key is returned.  items is not empty.
MaxByIntKey(items, prefix) ==
    LET key(i) == int(lstrip(items[i], Range(prefix)))
        I == 1..Len(items)
    IN  IF \E i \in I : key(i).err # "ok"
        THEN [err |-> "ValueError", val |-> None]
        ELSE LET best == CHOOSE i \in I :
                     /\ \A j \in I : key(j).val <= key(i).val
                     /\ \A j \in I : j < i => key(j).val < key(i).val
             IN  [err |-> "ok", val |-> Some(items[best])]

GET_LATEST_WEEK(weeks) == MaxByIntKey(weeks, WEEK)

\* a slip: the last name of the listing, as if listings came sorted
GET_LATEST_COURSE_last(courses) == [err |-> "ok", val |-> Some(courses[Len(courses)])]

GET_LATEST_COURSE(courses) == MaxByIntKey(courses, COURSE)

COURSE_IDENTIFICATION_TO_DIR(course_id) == COURSE \o course_id

WEEK_IDENTIFICATION_TO_DIR(week_id) == WEEK \o week_id

(***************************************************************************)
(* The filesystem: the set of directories and the set of other files.      *)
(***************************************************************************)
EmptyFS == [dirs |-> {}, files |-> {}]

Entries(f) == f.dirs \cup f.files

Size(f) == Cardinality(Entries(f))

Parent(p) == SubSeq(p, 1, Len(p) - 1)

\* the proper ancestors of p, the root included
Ancestors(p) == {SubSeq(p, 1, n) : n \in 0..(Len(p) - 1)}

\* a slip: a file in the way is replaced by the directory
os_mkdir_replace(f, p) ==
    IF \E a \in Ancestors(p) : a \in f.files
      THEN [fs |-> f, err |-> "NotADirectoryError"]
    ELSE IF \E a \in Ancestors(p) : a \notin f.dirs
      THEN [fs |-> f, err |-> "FileNotFoundError"]
    ELSE IF p \in f.dirs
      THEN [fs |-> f, err |-> "FileExistsError"]
    ELSE [fs |-> [dirs |-> f.dirs \cup {p}, files |-> f.files \ {p}], err |-> "ok"]

\* os.mkdir: one directory, no parents
os_mkdir(f, p) ==
    IF \E a \in Ancestors(p) : a \in f.files
      THEN [fs |-> f, err |-> "NotADirectoryError"]
    ELSE IF \E a \in Ancestors(p) : a \notin f.dirs
      THEN [fs |-> f, err |-> "FileNotFoundError"]
    ELSE IF p \in Entries(f)
      THEN [fs |-> f, err |-> "FileExistsError"]
    ELSE [fs |-> [f EXCEPT !.dirs = @ \cup {p}], err |-> "ok"]

\* pathlib.Path.mkdir(parents, exist_ok)
RECURSIVE Path_mkdir(_, _, _, _)
Path_mkdir(f, p, parents, exist_ok) ==
    LET r == os_mkdir(f, p)
    IN  IF r.err = "ok" THEN r
        ELSE IF r.err = "FileNotFoundError"
          THEN IF ~parents \/ p = <<>> THEN r
               ELSE LET up == Path_mkdir(f, Parent(p), TRUE, TRUE)
                    IN  IF up.err # "ok" THEN up
                        ELSE Path_mkdir(up.fs, p, FALSE, exist_ok)
        ELSE IF exist_ok /\ p \in f.dirs THEN [fs |-> f, err |-> "ok"]
        ELSE r

\* a slip: exist_ok left out
mkdir_strict(f, path) == Path_mkdir(f, path, TRUE, FALSE)

mkdir_gracefully(f, path) == Path_mkdir(f, path, TRUE, TRUE)

\* a slip: homework/answ is not made
create_week_dir_no_answ(f, wp) ==
    LET r1 == Path_mkdir(f, wp \o <<CLASSWORK>>, TRUE, TRUE)
    IN  IF r1.err # "ok" THEN r1
        ELSE Path_mkdir(r1.fs, wp \o <<HOMEWORK, SRC>>, TRUE, TRUE)

\* Config.create_week_dir: the three calls in order, the first error ends it
create_week_dir(f, wp) ==
    LET r1 == mkdir_gracefully(f, wp \o <<CLASSWORK>>)
    IN  IF r1.err # "ok" THEN r1
        ELSE LET r2 == mkdir_gracefully(r1.fs, wp \o <<HOMEWORK, SRC>>)
             IN  IF r2.err # "ok" THEN r2
                 ELSE mkdir_gracefully(r2.fs, wp \o <<HOMEWORK, ANSW>>)

Children(f, p) == {q[Len(q)] : q \in {e \in Entries(f) : Len(e) = Len(p) + 1 /\ Parent(e) = p}}

\* all the orders in which a set of names can be listed
Orders(S) ==
    {s \in [1..Cardinality(S) -> S] : \A i, j \in 1..Cardinality(S) : s[i] = s[j] => i = j}

\* os.listdir: the names in a directory, in an order the system chooses
listdir(f, p) ==
    IF p \in f.dirs THEN {[err |-> "ok", names |-> s] : s \in Orders(Children(f, p))}
    ELSE IF p \in f.files \/ \E a \in Ancestors(p) : a \in f.files
      THEN {[err |-> "NotADirectoryError", names |-> <<>>]}
    ELSE {[err |-> "FileNotFoundError", names |-> <<>>]}

\* [x for x in names if pred(x)]
RECURSIVE SelectCourse(_)
SelectCourse(names) ==
    IF names = <<>> THEN <<>>
    ELSE (IF IS_COURSE_DIR(Head(names)) THEN <<Head(names)>> ELSE <<>>)
         \o SelectCourse(Tail(names))

RECURSIVE SelectWeek(_)
SelectWeek(names) ==
    IF names = <<>> THEN <<>>
    ELSE (IF IS_WEEK_DIR(Head(names)) THEN <<Head(names)>> ELSE <<>>)
         \o SelectWeek(Tail(names))

\* get_latest_course: the set of results, one per listing order
get_latest_course(f, dir) ==
    {IF l.err # "ok" THEN [err |-> l.err, val |-> None]
     ELSE LET courses == SelectCourse(l.names)
          IN  IF courses # <<>> THEN GET_LATEST_COURSE(courses)
              ELSE [err |-> "ok", val |-> None] : l \in listdir(f, dir)}

get_latest_week(f, dir) ==
    {IF l.err # "ok" THEN [err |-> l.err, val |-> None]
     ELSE LET weeks == SelectWeek(l.names)
          IN  IF weeks # <<>> THEN GET_LATEST_WEEK(weeks)
              ELSE [err |-> "ok", val |-> None] : l \in listdir(f, dir)}

(***************************************************************************)
(* The command line.                                                       *)
(***************************************************************************)
\* a slip: hw without choices
parse_args_any_hw(av) ==
    IF av.directory \notin Aliases
    THEN [err |-> "usage", directory |-> av.directory, hw |-> "h", c |-> av.c, w |-> av.w]
    ELSE [err |-> "ok", directory |-> av.directory,
          hw |-> IF av.hw = None THEN "h" ELSE av.hw[1], c |-> av.c, w |-> av.w]

\* create_parser + parse_args: "directory" must be one of the aliases, "hw"
\* one of c, h (h when omitted); a bad value is a usage error.
parse_args(av) ==
    IF av.directory \notin Aliases \/ (av.hw # None /\ av.hw[1] \notin {"c", "h"})
    THEN [err |-> "usage", directory |-> av.directory, hw |-> "h", c |-> av.c, w |-> av.w]
    ELSE [err |-> "ok", directory |-> av.directory,
          hw |-> IF av.hw = None THEN "h" ELSE av.hw[1], c |-> av.c, w |-> av.w]

\* get_course: the set of results [fs, err, val], one per listing order
get_course(f, path, args) ==
    IF args.c = None
    THEN {[fs |-> f, err |-> r.err, val |-> r.val] : r \in get_latest_course(f, path)}
    ELSE LET course == COURSE_IDENTIFICATION_TO_DIR(args.c[1])
             m == mkdir_gracefully(f, path \o <<course>>)
         IN  {[fs |-> m.fs, err |-> m.err,
               val |-> IF m.err = "ok" THEN Some(course) ELSE None]}

\* a slip: the week found by the lookup is scaffolded as well
get_week_scaffolds(f, cp, args) ==
    IF args.w = None
    THEN {IF r.err = "ok" /\ r.val # None
          THEN LET m == create_week_dir(f, cp \o r.val)
               IN  [fs |-> m.fs, err |-> m.err, val |-> IF m.err = "ok" THEN r.val ELSE None]
          ELSE [fs |-> f, err |-> r.err, val |-> r.val] : r \in get_latest_week(f, cp)}
    ELSE LET week == WEEK_IDENTIFICATION_TO_DIR(args.w[1])
             m == create_week_dir(f, cp \o <<week>>)
         IN  {[fs |-> m.fs, err |-> m.err,
               val |-> IF m.err = "ok" THEN Some(week) ELSE None]}

get_week(f, cp, args) ==
    IF args.w = None
    THEN {[fs |-> f, err |-> r.err, val |-> r.val] : r \in get_latest_week(f, cp)}
    ELSE LET week == WEEK_IDENTIFICATION_TO_DIR(args.w[1])
             m == create_week_dir(f, cp \o <<week>>)
         IN  {[fs |-> m.fs, err |-> m.err,
               val |-> IF m.err = "ok" THEN Some(week) ELSE None]}

\* a slip: homework/src for homework/answ
leaf_src(wp, hw) ==
    IF hw = "c" THEN wp \o <<CLASSWORK>>
    ELSE IF hw = "h" THEN wp \o <<HOMEWORK, SRC>>
    ELSE wp

\* the path main prints for the week directory wp
leaf(wp, hw) ==
    IF hw = "c" THEN wp \o <<CLASSWORK>>
    ELSE IF hw = "h" THEN wp \o <<HOMEWORK, ANSW>>
    ELSE wp

\* how a run ends: the filesystem, the exit status, what was printed, the
\* steps of main that ran, and main's course_path and week_path if assigned
Outcome(f, st, o, sq, cp, wp) ==
    [fs |-> f, status |-> st, out |-> o, steps |-> sq, course_path |-> cp, week_path |-> wp]

\* main from get_week on
main_week(f, cp, args) ==
    LET sq == <<"parse_args", "mkdir_base", "get_course", "get_week">>
    IN  {IF r.err # "ok" THEN Outcome(r.fs, r.err, None, sq, Some(cp), None)
         ELSE IF r.val = None THEN Outcome(r.fs, "no week dir", None, sq, Some(cp), None)
         ELSE Outcome(r.fs, "ok", Some(leaf(cp \o r.val, args.hw)),
                      Append(sq, "print"), Some(cp), Some(cp \o r.val))
         : r \in get_week(f, cp, args)}

\* a slip: no check of "course is None"
main_course_unchecked(f, base_path, args) ==
    LET sq == <<"parse_args", "mkdir_base", "get_course">>
    IN  UNION {IF r.err # "ok" THEN {Outcome(r.fs, r.err, None, sq, None, None)}
               ELSE IF r.val = None THEN main_week(r.fs, base_path, args)
               ELSE main_week(r.fs, base_path \o r.val, args)
               : r \in get_course(f, base_path, args)}

\* main from get_course on
main_course(f, base_path, args) ==
    LET sq == <<"parse_args", "mkdir_base", "get_course">>
    IN  UNION {IF r.err # "ok" THEN {Outcome(r.fs, r.err, None, sq, None, None)}
               ELSE IF r.val = None
                 THEN {Outcome(r.fs, "no course dir", None, sq, None, None)}
               ELSE main_week(r.fs, base_path \o r.val, args)
               : r \in get_course(f, base_path, args)}

\* main: the set of outcomes of one run; status is "ok" (exit 0), "usage",
\* "no course dir", "no week dir" (parser.error, exit 2) or the name of the
\* exception that ended the run (exit 1)
main(f, av) ==
    LET args == parse_args(av)
    IN  IF args.err # "ok"
        THEN {Outcome(f, "usage", None, <<"parse_args">>, None, None)}
        ELSE LET base_path == <<COURSES(args.directory)>>
                 m == mkdir_gracefully(f, base_path)
             IN  IF m.err # "ok"
                 THEN {Outcome(m.fs, m.err, None, <<"parse_args", "mkdir_base">>, None, None)}
                 ELSE main_course(m.fs, base_path, args)

(***************************************************************************)
(* Spec: runs of the program, one after another, on one filesystem.        *)
(***************************************************************************)
\* the identifications given with -c and -w
Idents == {<<"2">>, <<"1", "0">>, <<"x">>}
WeekIdents == {<<"7">>, <<"x">>}

NOTES == <<"n", "o", "t", "e", "s">>

Argv ==
    [directory : Aliases \cup {"z"},
     hw : {None, Some("c"), Some("h"), Some("x")},
     c : {None} \cup {Some(i) : i \in Idents},
     w : {None} \cup {Some(i) : i \in WeekIdents}]

\* the deepest entry of the tree the runs start on
Spots ==
    LET d == PROGRAMMING_CPP
        c == COURSE \o <<"2">>
        w == WEEK \o <<"7">>
    IN  {<<>>, <<d>>, <<d, NOTES>>, <<d, c>>, <<d, c, NOTES>>, <<d, c, w>>,
         <<d, c, w, CLASSWORK>>, <<d, c, w, HOMEWORK>>, <<d, c, w, HOMEWORK, ANSW>>}

\* the trees the runs start on: nothing, or the path to a spot, the spot
\* itself a directory or a file
InitFS ==
    {EmptyFS}
    \cup {[dirs |-> Ancestors(p), files |-> {p}] : p \in Spots}
    \cup {[dirs |-> Ancestors(p) \cup {p}, files |-> {}] : p \in Spots}

NoArgv == [directory |-> "p", hw |-> None, c |-> None, w |-> None]

Init ==
    /\ fs \in InitFS
    /\ fs0 = fs
    /\ pc = "shell"
    /\ argv = NoArgv
    /\ status = "none"
    /\ out = None
    /\ steps = <<>>
    /\ course_path = None
    /\ week_path = None
    /\ prev = None
    /\ lookup = None
    /\ call = None

\* one run of main with the command line av
Invoke(av) ==
    /\ \E r \in main(fs, av) :
          /\ fs' = r.fs
          /\ status' = r.status
          /\ out' = r.out
          /\ steps' = r.steps
          /\ course_path' = r.course_path
          /\ week_path' = r.week_path
    /\ fs0' = fs
    /\ argv' = av
    /\ UNCHANGED <<lookup, call>>

\* the user runs the program
Run(av) ==
    /\ pc = "shell"
    /\ Size(fs) < MaxEntries
    /\ pc' = "ran"
    /\ prev' = None
    /\ Invoke(av)

\* right after a run, the user runs it again with the same directory and hw
\* and neither -c nor -w
Rerun ==
    /\ pc = "ran"
    /\ pc' = "reran"
    /\ prev' = Some([argv |-> argv, status |-> status, out |-> out, fs0 |-> fs0])
    /\ Invoke([argv EXCEPT !.c = None, !.w = None])

\* the output of the last run is forgotten
Forget ==
    /\ pc \in {"ran", "reran"}
    /\ pc' = "shell"
    /\ fs0' = fs
    /\ argv' = NoArgv
    /\ status' = "none"
    /\ out' = None
    /\ steps' = <<>>
    /\ course_path' = None
    /\ week_path' = None
    /\ prev' = None
    /\ UNCHANGED <<fs, lookup, call>>

Next ==
    \/ \E av \in Argv : Run(av)
    \/ Rerun
    \/ Forget

Spec == Init /\ [][Next]_vars

(***************************************************************************)
(* SpecLatest: get_latest_course and get_latest_week on a drawn listing.   *)
(***************************************************************************)
\* the characters after the prefix: digits, a letter of both prefixes, and
\* a letter of neither
SuffixChars == {"1", "2", "e", "x"}

Suffixes == UNION {[1..n -> SuffixChars] : n \in 0..MaxSuffixLen}

ShortSuffixes == {<<>>} \cup {<<ch>> : ch \in SuffixChars}

\* the names of a listing: the prefix with every suffix of sfx, and two
\* names that do not start with it
ListingNames(prefix, other, sfx) ==
    {prefix \o s : s \in sfx} \cup {NOTES, other \o <<"1">>}

\* the listings drawn: none, or up to three names, the third a short one
Listings(prefix, other) ==
    {{}} \cup {{a, b, c} : a \in ListingNames(prefix, other, Suffixes),
                          b \in ListingNames(prefix, other, Suffixes),
                          c \in ListingNames(prefix, other, ShortSuffixes)}

\* the directory that holds exactly the names of S
DirOf(S) == [dirs |-> {<<>>} \cup {<<n>> : n \in S}, files |-> {}]

InitLatest ==
    /\ \E S \in Listings(COURSE, WEEK) \cup Listings(WEEK, COURSE) :
          fs = DirOf(S)
    /\ fs0 = fs
    /\ pc = "shell"
    /\ argv = NoArgv
    /\ status = "none"
    /\ out = None
    /\ steps = <<>>
    /\ course_path = None
    /\ week_path = None
    /\ prev = None
    /\ lookup = None
    /\ call = None

LookupCourse ==
    /\ lookup = None
    /\ \E r \in get_latest_course(fs, <<>>) :
          lookup' = Some([fn |-> "get_latest_course", err |-> r.err, val |-> r.val])
    /\ UNCHANGED <<fs, fs0, pc, argv, status, out, steps, course_path, week_path, prev, call>>

LookupWeek ==
    /\ lookup = None
    /\ \E r \in get_latest_week(fs, <<>>) :
          lookup' = Some([fn |-> "get_latest_week", err |-> r.err, val |-> r.val])
    /\ UNCHANGED <<fs, fs0, pc, argv, status, out, steps, course_path, week_path, prev, call>>

NextLatest == LookupCourse \/ LookupWeek

SpecLatest == InitLatest /\ [][NextLatest]_vars

(***************************************************************************)
(* SpecMkdir: calls of mkdir_gracefully and Config.create_week_dir, one    *)
(* after another, on a drawn tree.                                         *)
(***************************************************************************)
\* the week directory wp and what create_week_dir makes below it
Scaffold(wp) ==
    {wp, wp \o <<CLASSWORK>>, wp \o <<HOMEWORK>>, wp \o <<HOMEWORK, SRC>>,
     wp \o <<HOMEWORK, ANSW>>}

WeekPaths == {<<>>, <<WEEK \o <<"1">>>>}

MkdirPaths == UNION {Scaffold(wp) : wp \in WeekPaths}

InitMkdir ==
    /\ fs \in {EmptyFS}
          \cup {[dirs |-> Ancestors(p), files |-> {p}] : p \in MkdirPaths}
          \cup {[dirs |-> Ancestors(p) \cup {p}, files |-> {}] : p \in MkdirPaths}
    /\ fs0 = fs
    /\ pc = "shell"
    /\ argv = NoArgv
    /\ status = "none"
    /\ out = None
    /\ steps = <<>>
    /\ course_path = None
    /\ week_path = None
    /\ prev = None
    /\ lookup = None
    /\ call = None

\* a call is recorded with the tree it started on; prev is the call before
CallMkdir(p) ==
    LET r == mkdir_gracefully(fs, p)
    IN  /\ fs' = r.fs
        /\ fs0' = fs
        /\ call' = Some([fn |-> "mkdir_gracefully", path |-> p, err |-> r.err, before |-> fs])
        /\ prev' = call
        /\ UNCHANGED <<pc, argv, status, out, steps, course_path, week_path, lookup>>

CallCreateWeekDir(p) ==
    LET r == create_week_dir(fs, p)
    IN  /\ fs' = r.fs
        /\ fs0' = fs
        /\ call' = Some([fn |-> "create_week_dir", path |-> p, err |-> r.err, before |-> fs])
        /\ prev' = call
        /\ UNCHANGED <<pc, argv, status, out, steps, course_path, week_path, lookup>>

NextMkdir ==
    \/ \E p \in MkdirPaths : CallMkdir(p)
    \/ \E p \in WeekPaths : CallCreateWeekDir(p)

SpecMkdir == InitMkdir /\ [][NextMkdir]_vars

(***************************************************************************)
(* Vocabulary of the properties.                                           *)
(***************************************************************************)
Ran == pc \in {"ran", "reran"}

ValidArgs(av) == av.directory \in {"p", "a"} /\ av.hw \in {None, Some("c"), Some("h")}

\* the name without its first n characters
DropPrefix(name, prefix) == SubSeq(name, Len(prefix) + 1, Len(name))

IsInteger(s) == s # <<>> /\ \A i \in 1..Len(s) : s[i] \in Digits

\* the entries of directory p whose name starts with prefix
Prefixed(f, p, prefix) == {n \in Children(f, p) : startswith(n, prefix)}

BaseOf(av) == <<IF av.directory = "p" THEN PROGRAMMING_CPP ELSE ASSEMBLY>>

\* the path to print for week directory wp under the hw argument as given
Expected(wp, hw) ==
    IF hw = Some("c") THEN wp \o <<CLASSWORK>> ELSE wp \o <<HOMEWORK, ANSW>>

\* the directories -c and -w name
ExplicitCourse(av) == BaseOf(av) \o <<COURSE \o av.c[1]>>
ExplicitWeek(av) == ExplicitCourse(av) \o <<WEEK \o av.w[1]>>

(***************************************************************************)
(* C3: a run with a valid alias and hw, -c C and -w W, started on a tree   *)
(* where none of the paths it needs is a file, exits 0, prints             *)
(* <base>/course<C>/week<W>/<leaf>, and leaves course<C>, week<W> and the  *)
(* three scaffold directories in place.                                    *)
(***************************************************************************)
C3_ExplicitRunBuildsTree ==
    (/\ Ran
     /\ ValidArgs(argv)
     /\ argv.c # None
     /\ argv.w # None
     /\ \A p \in Scaffold(ExplicitWeek(argv)) : \A n \in 0..Len(p) :
            SubSeq(p, 1, n) \notin fs0.files)
    => /\ status = "ok"
       /\ out = Some(Expected(ExplicitWeek(argv), argv.hw))
       /\ ExplicitCourse(argv) \in fs.dirs
       /\ Scaffold(ExplicitWeek(argv)) \subseteq fs.dirs

\* such a run on a tree that had the course and the week but not all leaves
C3_Witness ==
    /\ pc = "ran"
    /\ ValidArgs(argv)
    /\ argv.c # None
    /\ argv.w # None
    /\ status = "ok"
    /\ fs0.files = {}
    /\ ExplicitWeek(argv) \in fs0.dirs
    /\ ~(Scaffold(ExplicitWeek(argv)) \subseteq fs0.dirs)
    /\ Scaffold(ExplicitWeek(argv)) \subseteq fs.dirs

(***************************************************************************)
(* C4, as claimed: a run with neither -c nor -w leaves the set of          *)
(* directories as it found it.                                             *)
(***************************************************************************)
C4_Original == (Ran /\ argv.c = None /\ argv.w = None) => fs.dirs = fs0.dirs

(***************************************************************************)
(* C4, amended: a run with neither -c nor -w creates no directory other    *)
(* than the category directory and the root above it (and those only with  *)
(* a valid command line); every other entry is as the run found it.        *)
(***************************************************************************)
C4_LookupCreatesOnlyBase ==
    (Ran /\ argv.c = None /\ argv.w = None)
    => /\ fs.files = fs0.files
       /\ fs0.dirs \subseteq fs.dirs
       /\ fs.dirs \ fs0.dirs \subseteq
            (IF ValidArgs(argv) THEN {<<>>, BaseOf(argv)} ELSE {})

\* a lookup run that made the category directory beside the other one
C4_Witness ==
    /\ Ran
    /\ argv.c = None
    /\ argv.w = None
    /\ fs0.dirs # {}
    /\ BaseOf(argv) \notin fs0.dirs
    /\ BaseOf(argv) \in fs.dirs

(***************************************************************************)
(* C5: with no -c and no entry of the category directory starting with     *)
(* "course" the run ends with the "no course dir" error and prints         *)
(* nothing; with no -w and no entry of the selected course directory       *)
(* starting with "week" it ends with the "no week dir" error and prints    *)
(* nothing; get_week never runs when no course was selected.               *)
(***************************************************************************)
C5_NothingToSelect ==
    /\ (/\ Ran
        /\ ValidArgs(argv)
        /\ argv.c = None
        /\ BaseOf(argv) \in fs.dirs
        /\ Prefixed(fs, BaseOf(argv), COURSE) = {})
       => (status = "no course dir" /\ out = None)
    /\ (/\ Ran
        /\ argv.w = None
        /\ course_path # None
        /\ course_path[1] \in fs.dirs
        /\ Prefixed(fs, course_path[1], WEEK) = {})
       => (status = "no week dir" /\ out = None)
    /\ (Ran /\ course_path = None) => \A i \in 1..Len(steps) : steps[i] # "get_week"

\* no course to select in a category directory that is not empty
C5_Witness ==
    /\ Ran
    /\ status = "no course dir"
    /\ Children(fs0, BaseOf(argv)) # {}

(***************************************************************************)
(* C6: a run whose alias is not p or a, or whose hw is given and is not c  *)
(* or h, ends with a usage error before anything else: the filesystem is   *)
(* as it was and nothing is printed, also with -c and -w.                  *)
(***************************************************************************)
C6_UsageErrorTouchesNothing ==
    (Ran /\ ~ValidArgs(argv))
    => /\ status = "usage"
       /\ fs = fs0
       /\ out = None
       /\ steps = <<"parse_args">>

\* a bad hw with a good alias, -c and -w, on a tree without that course
C6_Witness ==
    /\ Ran
    /\ argv.directory = "p"
    /\ argv.hw = Some("x")
    /\ argv.c # None
    /\ argv.w # None
    /\ status = "usage"
    /\ ExplicitCourse(argv) \notin fs.dirs

(***************************************************************************)
(* C8: no step deletes or replaces an entry: a directory stays a           *)
(* directory and a file stays a file.                                      *)
(***************************************************************************)
C8_EntriesOnlyGrow == [][fs.dirs \subseteq fs'.dirs /\ fs.files \subseteq fs'.files]_vars

\* a run that created directories in a tree that holds a file
C8_Witness ==
    /\ Ran
    /\ fs0.files # {}
    /\ fs.dirs # fs0.dirs
    /\ status = "ok"

(***************************************************************************)
(* C9: a run that prints, prints week_path/classwork for hw c and          *)
(* week_path/homework/answ for hw h or no hw; it never prints the bare     *)
(* week directory, and prints the same whether or not the leaf exists.     *)
(***************************************************************************)
C9_LeafSelection ==
    (Ran /\ out # None)
    => /\ status = "ok"
       /\ week_path # None
       /\ argv.hw = Some("c") => out[1] = week_path[1] \o <<CLASSWORK>>
       /\ argv.hw \in {None, Some("h")} => out[1] = week_path[1] \o <<HOMEWORK, ANSW>>
       /\ out[1] # week_path[1]

\* hw omitted, and the printed homework/answ is no directory
C9_Witness ==
    /\ Ran
    /\ status = "ok"
    /\ argv.hw = None
    /\ out = Some(week_path[1] \o <<HOMEWORK, ANSW>>)
    /\ week_path[1] \in fs.dirs
    /\ out[1] \notin fs.dirs

(***************************************************************************)
(* C10: when a run with -c C and -w W, both integers, C greater than the   *)
(* number of every course entry of the category directory (all of which    *)
(* have integer suffixes), exits 0 and prints P, the run right after it    *)
(* with the same alias and hw and neither -c nor -w exits 0, prints P and  *)
(* creates nothing.                                                        *)
(***************************************************************************)
C10_ExplicitThenImplicit ==
    (/\ pc = "reran"
     /\ prev[1].status = "ok"
     /\ prev[1].argv.c # None
     /\ prev[1].argv.w # None
     /\ IsInteger(prev[1].argv.c[1])
     /\ IsInteger(prev[1].argv.w[1])
     /\ \A n \in Prefixed(prev[1].fs0, BaseOf(argv), COURSE) :
            /\ IsInteger(DropPrefix(n, COURSE))
            /\ DecimalValue(DropPrefix(n, COURSE)) < DecimalValue(prev[1].argv.c[1]))
    => /\ status = "ok"
       /\ out = prev[1].out
       /\ fs = fs0

\* the new course came after an older one
C10_Witness ==
    /\ pc = "reran"
    /\ prev[1].status = "ok"
    /\ prev[1].argv.c = Some(<<"1", "0">>)
    /\ prev[1].argv.w = Some(<<"7">>)
    /\ Prefixed(prev[1].fs0, BaseOf(argv), COURSE) = {COURSE \o <<"2">>}
    /\ status = "ok"
    /\ out = prev[1].out

(***************************************************************************)
(* C1: when the names of the listing that start with the prefix are not    *)
(* none and have integer suffixes of distinct values, the lookup returns   *)
(* the one of greatest value, whatever other names the listing holds and   *)
(* in whatever order it comes.                                             *)
(***************************************************************************)
LatestIsMax(fn, prefix) ==
    LET P == Prefixed(fs, <<>>, prefix)
        num(n) == DecimalValue(DropPrefix(n, prefix))
    IN  (/\ lookup # None
         /\ lookup[1].fn = fn
         /\ P # {}
         /\ \A n \in P : IsInteger(DropPrefix(n, prefix))
         /\ \A m, n \in P : m # n => num(m) # num(n))
        => /\ lookup[1].err = "ok"
           /\ lookup[1].val # None
           /\ lookup[1].val[1] \in P
           /\ \A n \in P : num(n) <= num(lookup[1].val[1])

C1_LatestIsNumericMax ==
    LatestIsMax("get_latest_course", COURSE) /\ LatestIsMax("get_latest_week", WEEK)

\* course2, course11 and course1: course11
C1_Witness ==
    /\ lookup # None
    /\ lookup[1].fn = "get_latest_course"
    /\ Children(fs, <<>>) = {COURSE \o <<"2">>, COURSE \o <<"1", "1">>, COURSE \o <<"1">>}
    /\ lookup[1].val = Some(COURSE \o <<"1", "1">>)

(***************************************************************************)
(* C2: when a name of the listing starts with the prefix and what follows  *)
(* the prefix is not an integer, the lookup fails; it returns no name.     *)
(***************************************************************************)
MalformedFails(fn, prefix) ==
    (/\ lookup # None
     /\ lookup[1].fn = fn
     /\ \E n \in Prefixed(fs, <<>>, prefix) : ~IsInteger(DropPrefix(n, prefix)))
    => lookup[1].err = "ValueError"

C2_MalformedAlwaysFails ==
    MalformedFails("get_latest_course", COURSE) /\ MalformedFails("get_latest_week", WEEK)

(***************************************************************************)
(* C7: a second call of mkdir_gracefully, or of create_week_dir, on the    *)
(* path of a first call that raised nothing raises nothing and changes     *)
(* nothing, and what was there before the first call is still there.       *)
(***************************************************************************)
C7_MaterializeIdempotent ==
    (/\ call # None
     /\ prev # None
     /\ prev[1].fn = call[1].fn
     /\ prev[1].path = call[1].path
     /\ prev[1].err = "ok")
    => /\ call[1].err = "ok"
       /\ fs = call[1].before
       /\ prev[1].before.dirs \subseteq fs.dirs
       /\ prev[1].before.files \subseteq fs.files

\* create_week_dir twice where a file lay and the first call made something
C7_Witness ==
    /\ call # None
    /\ prev # None
    /\ call[1].fn = "create_week_dir"
    /\ prev[1].fn = "create_week_dir"
    /\ prev[1].path = call[1].path
    /\ prev[1].err = "ok"
    /\ prev[1].before.files # {}
    /\ prev[1].before # call[1].before
    /\ call[1].err = "ok"

====
